---------------------------- MODULE Spec2Model ----------------------------
(***************************************************************************)
(* A model of map-my-locations: the path resolver get_nested and the       *)
(* command-line pipeline main (cli.py), and the geometry and rendering of  *)
(* SimpleLocationMapper (mapper.py).                                       *)
(*                                                                         *)
(* Conventions.                                                            *)
(*  - A Python str is a sequence of one-character strings, so that         *)
(*    str.split, re.match and int() are computed character by character.   *)
(*  - A JSON value is a record [t, n, s, keys, kids]; a dict keeps its     *)
(*    insertion order (keys and kids are parallel sequences).              *)
(*  - A coordinate is an integer number of hundredths of a degree.         *)
(*  - A float quotient p/q is kept exactly, as numerator and denominator.  *)
(***************************************************************************)
EXTENDS Integers, Sequences, FiniteSets, TLC

VARIABLES
    \* main (cli.py)
    file, pc, args, data, raw, stays, idx, html, exit_status, calls,
    \* SimpleLocationMapper instance and the world it acts on
    mapper_map, files, opened,
    \* get_nested called on its own
    gn_segs, gn_data, gn_path, gn_ret,
    \* calculate_map_bounds called on its own
    cb_coords, cb_ret,
    \* haversine_distance called on its own
    hv_args, hv_ret,
    \* create_map called on its own
    cm_stays, cm_path, cm_ret

mainVars   == <<file, pc, args, data, raw, stays, idx, html, exit_status, calls>>
mapperVars == <<mapper_map, files, opened>>
nestedVars == <<gn_segs, gn_data, gn_path, gn_ret>>
boundsVars == <<cb_coords, cb_ret>>
havVars    == <<hv_args, hv_ret>>
cmVars     == <<cm_stays, cm_path, cm_ret>>
vars == <<mainVars, mapperVars, nestedVars, boundsVars, havVars, cmVars>>

---------------------------------------------------------------------------
(* Bounds of the model.                                                    *)

\* nodes of a JSON document handed to get_nested on its own
MaxNodes == 4
\* dot-separated segments of a path handed to get_nested on its own
MaxSegs == 2
\* coordinates handed to calculate_map_bounds on its own
MaxCoords == 3
\* elements of the array main extracts
MaxItems == 2
\* stays handed to create_map on its own
MaxStays == 18
\* period of the coordinate pattern of those stays
MaxCycle == 2

---------------------------------------------------------------------------
(* Sequences.                                                              *)

RECURSIVE SeqsUpTo(_, _)
SeqsUpTo(S, n) ==
    IF n = 0 THEN {<<>>}
    ELSE LET shorter == SeqsUpTo(S, n - 1)
         IN  shorter \cup {Append(q, x) : q \in {r \in shorter : Len(r) = n - 1}, x \in S}

Range(q) == {q[i] : i \in 1..Len(q)}

---------------------------------------------------------------------------
(* JSON values as json.load returns them.                                  *)

JNull         == [t |-> "null", n |-> 0, s |-> <<>>, keys |-> <<>>, kids |-> <<>>]
JNum(v)       == [t |-> "num",  n |-> v, s |-> <<>>, keys |-> <<>>, kids |-> <<>>]
JStr(str)     == [t |-> "str",  n |-> 0, s |-> str,  keys |-> <<>>, kids |-> <<>>]
JArr(elems)   == [t |-> "arr",  n |-> 0, s |-> <<>>, keys |-> <<>>, kids |-> elems]
JObj(ks, vs)  == [t |-> "obj",  n |-> 0, s |-> <<>>, keys |-> ks,   kids |-> vs]
\* a reference to the dict that holds it (item["lat"] = item)
JSelf         == [t |-> "self", n |-> 0, s |-> <<>>, keys |-> <<>>, kids |-> <<>>]

\* position of key k in dict d, 0 when absent
KeyPos(d, k) ==
    IF \E i \in 1..Len(d.keys) : d.keys[i] = k
    THEN CHOOSE i \in 1..Len(d.keys) : d.keys[i] = k
    ELSE 0

HasKey(d, k) == d.t = "obj" /\ KeyPos(d, k) > 0

\* d[k] of a dict that has k
DictGet(d, k) == d.kids[KeyPos(d, k)]

\* d[k] = v : replaces in place, or appends a new key
DictSet(d, k, v) ==
    IF KeyPos(d, k) > 0
    THEN [d EXCEPT !.kids[KeyPos(d, k)] = v]
    ELSE [d EXCEPT !.keys = Append(@, k), !.kids = Append(d.kids, v)]

---------------------------------------------------------------------------
(* Results of a call that may raise.                                       *)

Ok(v)      == [ok |-> TRUE,  err |-> "",   val |-> v]
Raise(exc) == [ok |-> FALSE, err |-> exc,  val |-> JNull]

---------------------------------------------------------------------------
(* get_nested                                                              *)

Lower == {"a","b","c","d","e","f","g","h","i","j","k","l","m",
          "n","o","p","q","r","s","t","u","v","w","x","y","z"}
Upper == {"A","B","C","D","E","F","G","H","I","J","K","L","M",
          "N","O","P","Q","R","S","T","U","V","W","X","Y","Z"}
DigitChars == <<"0","1","2","3","4","5","6","7","8","9">>
Digits == Range(DigitChars)

\* [a-zA-Z0-9_]
IsWordChar(c) == c \in Lower \cup Upper \cup Digits \cup {"_"}
\* \d
IsDigitChar(c) == c \in Digits

DigitVal(c) == (CHOOSE i \in 1..Len(DigitChars) : DigitChars[i] = c) - 1

\* int(idx) for a string of digits
RECURSIVE ParseInt(_)
ParseInt(ds) ==
    IF ds = <<>> THEN 0
    ELSE 10 * ParseInt(SubSeq(ds, 1, Len(ds) - 1)) + DigitVal(ds[Len(ds)])

\* path.split('.')
RECURSIVE SplitDots(_)
SplitDots(path) ==
    IF \A i \in 1..Len(path) : path[i] # "."
    THEN <<path>>
    ELSE LET p == CHOOSE i \in 1..Len(path) :
                      path[i] = "." /\ \A j \in 1..(i - 1) : path[j] # "."
         IN  <<SubSeq(path, 1, p - 1)>> \o SplitDots(SubSeq(path, p + 1, Len(path)))

\* length of the longest prefix of part made of word characters
WordPrefix(part) ==
    IF \A i \in 1..Len(part) : IsWordChar(part[i])
    THEN Len(part)
    ELSE (CHOOSE i \in 1..Len(part) :
              ~IsWordChar(part[i]) /\ \A j \in 1..(i - 1) : IsWordChar(part[j])) - 1

\* re.match(r'^([a-zA-Z0-9_]+)(?:\[(\d+)\])?$', part), for a part of ASCII
\* characters without a line break: [matched, key, hasIdx, idx]
MatchSegment(part) ==
    LET w    == WordPrefix(part)
        rest == SubSeq(part, w + 1, Len(part))
        none == [matched |-> FALSE, key |-> <<>>, hasIdx |-> FALSE, idx |-> <<>>]
    IN  IF w = 0 THEN none
        ELSE IF rest = <<>>
             THEN [matched |-> TRUE, key |-> SubSeq(part, 1, w),
                   hasIdx |-> FALSE, idx |-> <<>>]
        ELSE IF /\ Len(rest) >= 3
                /\ rest[1] = "["
                /\ rest[Len(rest)] = "]"
                /\ \A i \in 2..(Len(rest) - 1) : IsDigitChar(rest[i])
             THEN [matched |-> TRUE, key |-> SubSeq(part, 1, w),
                   hasIdx |-> TRUE, idx |-> SubSeq(rest, 2, Len(rest) - 1)]
        ELSE none

\* node[key] for a str key
SubscriptKey(node, key) ==
    CASE node.t = "obj" ->
            IF KeyPos(node, key) > 0 THEN Ok(DictGet(node, key)) ELSE Raise("KeyError")
      [] OTHER -> Raise("TypeError")

\* the mutant: the index counts from 1
SubscriptIndexFromOne(node, i) ==
    CASE node.t = "arr" ->
            IF i >= 1 /\ i <= Len(node.kids) THEN Ok(node.kids[i]) ELSE Raise("IndexError")
      [] node.t = "str" ->
            IF i >= 1 /\ i <= Len(node.s) THEN Ok(JStr(<<node.s[i]>>)) ELSE Raise("IndexError")
      [] node.t = "obj" -> Raise("KeyError")
      [] OTHER -> Raise("TypeError")

\* node[i] for an int i >= 0
SubscriptIndex(node, i) ==
    CASE node.t = "arr" ->
            IF i < Len(node.kids) THEN Ok(node.kids[i + 1]) ELSE Raise("IndexError")
      [] node.t = "str" ->
            IF i < Len(node.s) THEN Ok(JStr(<<node.s[i + 1]>>)) ELSE Raise("IndexError")
      [] node.t = "obj" -> Raise("KeyError")
      [] OTHER -> Raise("TypeError")

\* the loop of get_nested over parts[k..], node being the current node
RECURSIVE WalkParts(_, _, _)
WalkParts(node, parts, k) ==
    IF k > Len(parts) THEN Ok(node)
    ELSE IF parts[k] = <<>> THEN WalkParts(node, parts, k + 1)
    ELSE LET m == MatchSegment(parts[k])
         IN  IF ~m.matched THEN Raise("ValueError")
             ELSE LET byKey == SubscriptKey(node, m.key)
                  IN  IF ~byKey.ok THEN byKey
                      ELSE IF ~m.hasIdx THEN WalkParts(byKey.val, parts, k + 1)
                      ELSE LET byIdx == SubscriptIndex(byKey.val, ParseInt(m.idx))
                           IN  IF ~byIdx.ok THEN byIdx
                               ELSE WalkParts(byIdx.val, parts, k + 1)

get_nested(d, path) == WalkParts(d, SplitDots(path), 1)


---------------------------------------------------------------------------
(* SimpleLocationMapper.haversine_distance                                 *)
(*                                                                         *)
(* Angles are integers in units of 1/200 degree, so that half the          *)
(* difference of two coordinates is exact.  math.sin, math.cos and         *)
(* math.asin are fixed-point (four decimals), interpolated linearly in a   *)
(* table of the sine at multiples of 15 degrees; math.sqrt is the integer  *)
(* square root.  The distance is in tenths of a kilometre.                 *)

EarthRadiusKm == 6371

SinTable == <<0, 2588, 5000, 7071, 8660, 9659, 10000>>
One      == SinTable[Len(SinTable)]
Step     == 15 * 200
Quarter  == 90 * 200

\* sine of an angle in 0..Quarter
SinFirstQuadrant(x) ==
    IF x = Quarter THEN One
    ELSE LET k == (x \div Step) + 1
         IN  SinTable[k] + ((SinTable[k + 1] - SinTable[k]) * (x % Step)) \div Step

\* math.sin(math.radians(x / 200))
RECURSIVE Sin(_)
Sin(x) ==
    IF x < 0 THEN 0 - Sin(0 - x)
    ELSE LET m == x % (4 * Quarter)
         IN  IF m <= Quarter THEN SinFirstQuadrant(m)
             ELSE IF m <= 2 * Quarter THEN SinFirstQuadrant(2 * Quarter - m)
             ELSE 0 - Sin(m - 2 * Quarter)

\* math.cos(math.radians(x / 200))
Cos(x) == Sin(x + Quarter)

\* math.sqrt: the largest r in lo..hi-1 with r*r <= v
RECURSIVE SqrtBetween(_, _, _)
SqrtBetween(v, lo, hi) ==
    IF hi - lo <= 1 THEN lo
    ELSE LET mid == (lo + hi) \div 2
         IN  IF mid * mid <= v THEN SqrtBetween(v, mid, hi) ELSE SqrtBetween(v, lo, mid)

Sqrt(v) == SqrtBetween(v, 0, 2 * One)

\* math.asin of x in 0..One, as an angle in 0..Quarter
Asin(x) ==
    LET k == CHOOSE j \in 1..(Len(SinTable) - 1) :
                 /\ x <= SinTable[j + 1]
                 /\ \A i \in 1..(j - 1) : x > SinTable[i + 1]
    IN  IF x = SinTable[k + 1] THEN k * Step
        ELSE (k - 1) * Step + ((x - SinTable[k]) * Step) \div (SinTable[k + 1] - SinTable[k])

\* the mutant: the cosine of the first latitude is used twice
haversine_distance_one_latitude(lat1, lon1, lat2, lon2) ==
    LET dlat == lat2 - lat1
        dlon == lon2 - lon1
        a == Sin(dlat) * Sin(dlat)
             + ((Cos(2 * lat1) * Cos(2 * lat1)) \div One) * ((Sin(dlon) * Sin(dlon)) \div One)
    IN  (((EarthRadiusKm * Asin(Sqrt(a))) \div 100) * 355) \div (113 * 18)

\* coordinates in hundredths of a degree; dlat/2 and dlon/2 are then
\* dlat and dlon in units of 1/200 degree, and a is scaled by One * One
haversine_distance(lat1, lon1, lat2, lon2) ==
    LET dlat == lat2 - lat1
        dlon == lon2 - lon1
        a == Sin(dlat) * Sin(dlat)
             + ((Cos(2 * lat1) * Cos(2 * lat2)) \div One) * ((Sin(dlon) * Sin(dlon)) \div One)
        \* c = 2 * asin(sqrt(a)), in units of 1/200 degree halved
        half == Asin(Sqrt(a))
    \* 6371 * c, c in radians: half / 100 degrees times pi / 180, pi = 355/113
    IN  (((EarthRadiusKm * half) \div 100) * 355) \div (113 * 18)

---------------------------------------------------------------------------
(* SimpleLocationMapper.calculate_map_bounds                               *)

RECURSIVE Sum(_)
Sum(q) == IF q = <<>> THEN 0 ELSE q[1] + Sum(Tail(q))

Max(S) == CHOOSE x \in S : \A y \in S : y <= x
Min(S) == CHOOSE x \in S : \A y \in S : x <= y

\* a number of degrees in hundredths of a degree
Deg(d) == 100 * d

\* the mutant: the first threshold is not strict
zoom_for_span_nonstrict(span) ==
    IF span >= Deg(10) THEN 5
    ELSE IF span > Deg(1) THEN 9
    ELSE IF span > 10 THEN 12
    ELSE IF span > 1 THEN 14
    ELSE 16

\* the if/elif chain on span; 0.1 and 0.01 degree are 10 and 1 hundredths
zoom_for_span(span) ==
    IF span > Deg(10) THEN 5
    ELSE IF span > Deg(1) THEN 9
    ELSE IF span > 10 THEN 12
    ELSE IF span > 1 THEN 14
    ELSE 16

\* the mutant: the center is the middle of the bounding box
center_of_midpoint(lats, lngs) ==
    <<Max(Range(lats)) + Min(Range(lats)), Max(Range(lngs)) + Min(Range(lngs)), 2>>

\* [sum(lats)/len(lats), sum(lngs)/len(lngs)] as
\* <<sum of lats, sum of lngs, count>>: the two quotients, undivided
center_of(lats, lngs) == <<Sum(lats), Sum(lngs), Len(lats)>>

\* coordinates: a sequence of <<lat, lng>>
calculate_map_bounds(coordinates) ==
    IF coordinates = <<>>
    THEN [center |-> <<0, 0, 1>>, zoom |-> 2]
    ELSE LET lats == [i \in 1..Len(coordinates) |-> coordinates[i][1]]
             lngs == [i \in 1..Len(coordinates) |-> coordinates[i][2]]
             lat_range == IF Len(coordinates) > 1 THEN Max(Range(lats)) - Min(Range(lats)) ELSE 0
             lng_range == IF Len(coordinates) > 1 THEN Max(Range(lngs)) - Min(Range(lngs)) ELSE 0
             span == Max({lat_range, lng_range})
         IN  [center |-> center_of(lats, lngs), zoom |-> zoom_for_span(span)]

---------------------------------------------------------------------------
(* SimpleLocationMapper.make_popup_html, make_distance_label, create_map   *)
(* and open_map.  The folium map is the sequence of the elements added to  *)
(* it, in the order of the add_to calls.                                   *)

KeyLat == <<"l","a","t">>
KeyLng == <<"l","n","g">>

\* the keys make_popup_html looks for, in its order, each with the label
\* its chain of str.replace turns the key into
PopupKeys == <<
    [key |-> <<"s","t","a","y","N","u","m","b","e","r">>,         label |-> "Stay #"],
    [key |-> <<"s","t","a","r","t">>,                             label |-> "start"],
    [key |-> <<"e","n","d">>,                                     label |-> "end"],
    [key |-> <<"d","u","r","a","t","i","o","n">>,                 label |-> "duration"],
    [key |-> <<"d","a","t","a","P","o","i","n","t","s">>,         label |-> "Points"],
    [key |-> <<"a","v","e","r","a","g","e","S","p","e","e","d">>, label |-> "Avg Speed"],
    [key |-> <<"s","e","a","r","c","h","R","a","d","i","u","s">>, label |-> "Radius"] >>

RECURSIVE PopupRows(_, _)
PopupRows(d, k) ==
    IF k > Len(PopupKeys) THEN <<>>
    ELSE IF HasKey(d, PopupKeys[k].key)
         THEN <<[label |-> PopupKeys[k].label, value |-> DictGet(d, PopupKeys[k].key)]>>
              \o PopupRows(d, k + 1)
         ELSE PopupRows(d, k + 1)

\* the popup: its title "Location #index" in color, the coordinates, and
\* one row per known key of d
make_popup_html(index, lat, lng, d, color) ==
    [index |-> index, color |-> color, lat |-> lat, lng |-> lng, rows |-> PopupRows(d, 1)]

NoPopup == [index |-> 0, color |-> "", lat |-> 0, lng |-> 0, rows |-> <<>>]

\* the label shows the distance with one decimal
make_distance_label(distance) == distance

colors == <<"red", "blue", "green", "purple", "orange", "darkred", "lightred",
            "beige", "darkblue", "darkgreen", "cadetblue", "darkpurple",
            "pink", "lightblue", "lightgreen", "gray", "black">>

\* the mutant: the colour index is not shifted to start at 0
marker_color_unshifted(i) == colors[(i % Len(colors)) + 1]

\* colors[(i-1) % len(colors)]
marker_color(i) == colors[((i - 1) % Len(colors)) + 1]

\* an element of the map.  at and to are <<lat, lng, denominator>>
\* and index, next the numbers shown ("Location #index", "Segment index->next")
Element(kind, at, to, index, next, color, popup, dist) ==
    [kind |-> kind, at |-> at, to |-> to, index |-> index, next |-> next,
     color |-> color, popup |-> popup, dist |-> dist]

\* the two markers of stay i: folium.Marker with the popup, the tooltip
\* "Location #i" and a coloured icon, then the DivIcon badge showing i
StayMarkers(stay_list, coords, i) ==
    LET lat == coords[i][1]
        lng == coords[i][2]
        color == marker_color(i)
    IN  << Element("popup_marker", <<lat, lng, 1>>, <<0, 0, 1>>, i, 0, color,
                   make_popup_html(i, lat, lng, stay_list[i], color), 0),
           Element("badge", <<lat, lng, 1>>, <<0, 0, 1>>, i, 0, color, NoPopup, 0) >>

RECURSIVE AllStayMarkers(_, _, _)
AllStayMarkers(stay_list, coords, i) ==
    IF i > Len(coords) THEN <<>>
    ELSE StayMarkers(stay_list, coords, i) \o AllStayMarkers(stay_list, coords, i + 1)

\* the mutant: the line of iteration i is labelled i->i+1, counted from 0
RouteSegmentZeroBased(coords, i) ==
    LET a == coords[i + 1]
        b == coords[i + 2]
        dist == haversine_distance(a[1], a[2], b[1], b[2])
    IN  << Element("line", <<a[1], a[2], 1>>, <<b[1], b[2], 1>>, i, i + 1,
                   "#ff4757", NoPopup, dist),
           Element("distance_label", <<a[1] + b[1], a[2] + b[2], 2>>, <<0, 0, 1>>, 0, 0,
                   "#ff4757", NoPopup, make_distance_label(dist)) >>

\* iteration i of the route loop (i counts from 0): the PolyLine from
\* coords[i] to coords[i+1] with popup "Segment i+1->i+2: dist km", then the
\* distance label at ((a[0]+b[0])/2, (a[1]+b[1])/2)
RouteSegment(coords, i) ==
    LET a == coords[i + 1]
        b == coords[i + 2]
        dist == haversine_distance(a[1], a[2], b[1], b[2])
    IN  << Element("line", <<a[1], a[2], 1>>, <<b[1], b[2], 1>>, i + 1, i + 2,
                   "#ff4757", NoPopup, dist),
           Element("distance_label", <<a[1] + b[1], a[2] + b[2], 2>>, <<0, 0, 1>>, 0, 0,
                   "#ff4757", NoPopup, make_distance_label(dist)) >>

\* for i in range(len(coords)-1)
RECURSIVE Route(_, _)
Route(coords, i) ==
    IF i >= Len(coords) - 1 THEN <<>>
    ELSE RouteSegment(coords, i) \o Route(coords, i + 1)

\* s["lat"], s["lng"] can be read, and summed by calculate_map_bounds
IsStay(st) ==
    /\ HasKey(st, KeyLat) /\ DictGet(st, KeyLat).t = "num"
    /\ HasKey(st, KeyLng) /\ DictGet(st, KeyLng).t = "num"

\* the mutant: an empty list of stays is saved as an empty map
create_map_saves_empty(self_map, disk, stay_list, save_path) ==
    IF \E i \in 1..Len(stay_list) : ~IsStay(stay_list[i])
    THEN [raised |-> TRUE, ret |-> "", map |-> self_map, files |-> disk]
    ELSE LET coords == [i \in 1..Len(stay_list) |->
                           <<DictGet(stay_list[i], KeyLat).n, DictGet(stay_list[i], KeyLng).n>>]
             bounds == calculate_map_bounds(coords)
             m == [built |-> TRUE, center |-> bounds.center, zoom |-> bounds.zoom,
                   elems |-> AllStayMarkers(stay_list, coords, 1)
                             \o (IF Len(coords) > 1 THEN Route(coords, 0) ELSE <<>>)]
         IN  [raised |-> FALSE, ret |-> save_path, map |-> m,
              files |-> {f \in disk : f.path # save_path}
                        \cup {[path |-> save_path, map |-> m]}]

\* create_map(self, stays, save_path) with self.map = self_map and the
\* files of the disk: [raised, ret, map, files].  ret "" is None.
\* An exception (a stay without a numeric lat and lng) leaves all as it was.
create_map(self_map, disk, stay_list, save_path) ==
    IF \E i \in 1..Len(stay_list) : ~IsStay(stay_list[i])
    THEN [raised |-> TRUE, ret |-> "", map |-> self_map, files |-> disk]
    ELSE LET coords == [i \in 1..Len(stay_list) |->
                           <<DictGet(stay_list[i], KeyLat).n, DictGet(stay_list[i], KeyLng).n>>]
         IN  IF coords = <<>>
             THEN [raised |-> FALSE, ret |-> "", map |-> self_map, files |-> disk]
             ELSE LET bounds == calculate_map_bounds(coords)
                      m == [built |-> TRUE, center |-> bounds.center, zoom |-> bounds.zoom,
                            elems |-> AllStayMarkers(stay_list, coords, 1)
                                      \o (IF Len(coords) > 1 THEN Route(coords, 0) ELSE <<>>)]
                  IN  [raised |-> FALSE, ret |-> save_path, map |-> m,
                       files |-> {f \in disk : f.path # save_path}
                                 \cup {[path |-> save_path, map |-> m]}]

---------------------------------------------------------------------------
(* The body of the loop of main over the elements of the array.            *)

\* what item[key] = v stores: v, or a reference to item when v is item
Stored(item, v) == IF v = item THEN JSelf ELSE v

\* the mutant: lat is written into the element before lng is resolved
ExtractItemLatFirst(item, lat_key, lng_key) ==
    LET lat == get_nested(item, lat_key)
    IN  IF ~lat.ok THEN [status |-> "failed", item |-> item]
        ELSE IF item.t # "obj" THEN [status |-> "crashed", item |-> item]
        ELSE LET item1 == DictSet(item, KeyLat, Stored(item, lat.val))
                 lng == get_nested(item1, lng_key)
             IN  IF ~lng.ok THEN [status |-> "failed", item |-> item]
                 ELSE [status |-> "ok", item |-> DictSet(item1, KeyLng, Stored(item, lng.val))]

\* lat and lng are resolved (an exception: "failed"), then written into
\* the element (an element that is no dict: TypeError, "crashed")
ExtractItem(item, lat_key, lng_key) ==
    LET lat == get_nested(item, lat_key)
        lng == get_nested(item, lng_key)
    IN  IF ~lat.ok \/ ~lng.ok THEN [status |-> "failed", item |-> item]
        ELSE IF item.t # "obj" THEN [status |-> "crashed", item |-> item]
        ELSE [status |-> "ok",
              item |-> DictSet(DictSet(item, KeyLat, Stored(item, lat.val)),
                               KeyLng, Stored(item, lng.val))]

\* data after the object that parts[k..] reach from node became new: raw is
\* a reference into data, so writing an element of raw changes data too
RECURSIVE StoreAt(_, _, _, _)
StoreAt(node, parts, k, new) ==
    IF k > Len(parts) THEN new
    ELSE IF parts[k] = <<>> THEN StoreAt(node, parts, k + 1, new)
    ELSE LET m == MatchSegment(parts[k])
             child == DictGet(node, m.key)
         IN  IF ~m.hasIdx
             THEN DictSet(node, m.key, StoreAt(child, parts, k + 1, new))
             ELSE LET j == ParseInt(m.idx) + 1
                  IN  DictSet(node, m.key,
                          [child EXCEPT !.kids[j] = StoreAt(child.kids[j], parts, k + 1, new)])

NotCalled == [ok |-> FALSE, err |-> "not called", val |-> JNull]

---------------------------------------------------------------------------
(* Inputs of get_nested called on its own: every JSON document of at most  *)
(* MaxNodes nodes over two scalars and two keys, and every path of at most *)
(* MaxSegs segments, each empty, `key` or `key[index]`.                    *)

KeyA == <<"a">>
KeyB == <<"b">>
Scalars == {JNum(7), JStr(<<"x", "y">>)}

RECURSIVE Trees(_), Forests(_)
\* the documents of exactly n nodes
Trees(n) ==
    IF n = 1 THEN Scalars
    ELSE {JArr(f) : f \in Forests(n - 1)}
         \cup {JObj(<<k>>, <<c>>) : k \in {KeyA, KeyB}, c \in Trees(n - 1)}
         \cup {JObj(<<KeyA, KeyB>>, f) : f \in {g \in Forests(n - 1) : Len(g) = 2}}
\* the non-empty sequences of documents of n nodes in all
Forests(n) ==
    IF n = 0 THEN {}
    ELSE {<<c>> : c \in Trees(n)}
         \cup UNION {{<<c>> \o f : c \in Trees(k), f \in Forests(n - k)} : k \in 1..(n - 1)}

Documents ==
    {JArr(<<>>), JObj(<<>>, <<>>)} \cup UNION {Trees(n) : n \in 1..MaxNodes}

\* a segment as written by the caller: form "empty", "key" or "index"
Segment(form, key, index, zeros) ==
    [form |-> form, key |-> key, index |-> index, zeros |-> zeros]

Segments ==
    {Segment("empty", <<>>, 0, 0)}
    \cup {Segment("key", k, 0, 0) : k \in {KeyA, KeyB}}
    \cup {Segment("index", k, i, 0) : k \in {KeyA, KeyB}, i \in {0, 1}}
    \cup {Segment("index", KeyA, 1, 1)}

\* the decimal digits of a natural number
RECURSIVE Decimal(_)
Decimal(v) ==
    IF v < 10 THEN <<DigitChars[v + 1]>>
    ELSE Decimal(v \div 10) \o <<DigitChars[(v % 10) + 1]>>

SegmentText(g) ==
    CASE g.form = "empty" -> <<>>
      [] g.form = "key"   -> g.key
      [] g.form = "index" ->
            g.key \o <<"[">> \o [i \in 1..g.zeros |-> "0"] \o Decimal(g.index) \o <<"]">>

\* the segments joined by dots
RECURSIVE PathText(_)
PathText(segs) ==
    IF segs = <<>> THEN <<>>
    ELSE IF Len(segs) = 1 THEN SegmentText(segs[1])
    ELSE SegmentText(segs[1]) \o <<".">> \o PathText(Tail(segs))

---------------------------------------------------------------------------
(* Idle values of the variables a specification does not use.              *)

MainIdle ==
    /\ file = [readable |-> FALSE, json |-> JNull]
    /\ pc = "idle"
    /\ html = ""
    /\ args = [array_path |-> <<>>, lat_key |-> <<>>, lng_key |-> <<>>, output |-> ""]
    /\ data = JNull
    /\ raw = JNull
    /\ stays = <<>>
    /\ idx = 0
    /\ exit_status = -1
    /\ calls = <<>>

NoMap == [built |-> FALSE, center |-> <<0, 0, 1>>, zoom |-> 0, elems |-> <<>>]

MapperInit ==
    /\ mapper_map = NoMap
    /\ files = {}
    /\ opened = <<>>

NestedIdle ==
    /\ gn_segs = <<>>
    /\ gn_data = JNull
    /\ gn_path = <<>>
    /\ gn_ret = NotCalled

BoundsIdle ==
    /\ cb_coords = <<>>
    /\ cb_ret = [called |-> FALSE, center |-> <<0, 0, 1>>, zoom |-> 0]

HavIdle ==
    /\ hv_args = <<0, 0, 0, 0>>
    /\ hv_ret = [called |-> FALSE, dist |-> 0]

NoReturn == [called |-> FALSE, raised |-> FALSE, ret |-> ""]

CmIdle ==
    /\ cm_stays = <<>>
    /\ cm_path = ""
    /\ cm_ret = NoReturn

---------------------------------------------------------------------------
(* get_nested called on its own.                                           *)

InitNested ==
    /\ gn_segs \in SeqsUpTo(Segments, MaxSegs)
    /\ gn_data \in Documents
    /\ gn_path = PathText(gn_segs)
    /\ gn_ret = NotCalled
    /\ MainIdle /\ MapperInit /\ BoundsIdle /\ HavIdle /\ CmIdle

CallGetNested ==
    /\ gn_ret = NotCalled
    /\ gn_ret' = get_nested(gn_data, gn_path)
    /\ UNCHANGED <<gn_segs, gn_data, gn_path>>
    /\ UNCHANGED <<mainVars, mapperVars, boundsVars, havVars, cmVars>>

NextNested == CallGetNested

SpecNested == InitNested /\ [][NextNested]_vars

---------------------------------------------------------------------------
(* The walk a path denotes, on the segments as the caller wrote them: a    *)
(* key steps into a mapping that has it, an index into an array that is    *)
(* long enough.  [def, val]                                                *)

RECURSIVE Denotes(_, _)
Denotes(node, segs) ==
    IF segs = <<>> THEN [def |-> TRUE, val |-> node]
    ELSE LET g == segs[1]
         IN  IF g.form = "empty" THEN Denotes(node, Tail(segs))
             ELSE IF ~HasKey(node, g.key) THEN [def |-> FALSE, val |-> JNull]
             ELSE LET child == DictGet(node, g.key)
                  IN  IF g.form = "key" THEN Denotes(child, Tail(segs))
                      ELSE IF child.t = "arr" /\ g.index < Len(child.kids)
                           THEN Denotes(child.kids[g.index + 1], Tail(segs))
                           ELSE [def |-> FALSE, val |-> JNull]

\* C1 (value): when the path denotes a value of the document, get_nested
\* returns exactly that value; the empty path returns the document.
C1_Returns ==
    gn_ret # NotCalled =>
        /\ Denotes(gn_data, gn_segs).def =>
               gn_ret = Ok(Denotes(gn_data, gn_segs).val)
        /\ (\A i \in 1..Len(gn_segs) : gn_segs[i].form = "empty") =>
               gn_ret = Ok(gn_data)

\* C1: get_nested returns the value reached by applying the segments of
\* the path left to right, skipping empty segments, and no step of it
\* changes the document it was given.
C1_GetNestedWalks == [](C1_Returns) /\ [][gn_data' = gn_data]_vars

\* C1 witness: a two-segment path, an index then a key, resolved to a leaf
C1_Witness ==
    /\ gn_ret = Ok(JNum(7))
    /\ Len(gn_segs) = 2
    /\ gn_segs[1].form = "index"
    /\ gn_segs[2].form = "key"

\* C2: get_nested raises, and returns nothing, whenever the walk meets a
\* missing key, a node that is not a mapping where a key is looked up or
\* not an array where an index is applied, or an index out of range.
C2_RaisesOnBadWalk ==
    (gn_ret # NotCalled /\ ~Denotes(gn_data, gn_segs).def) => ~gn_ret.ok

---------------------------------------------------------------------------
(* calculate_map_bounds called on its own: every list of at most MaxCoords *)
(* coordinates whose latitudes and longitudes sit on and next to the       *)
(* thresholds of the zoom table.                                           *)

AxisValues == {0, 1, 11, 101, 1001}

InitBounds ==
    /\ cb_coords \in SeqsUpTo(AxisValues \X AxisValues, MaxCoords)
    /\ cb_ret = [called |-> FALSE, center |-> <<0, 0, 1>>, zoom |-> 0]
    /\ MainIdle /\ MapperInit /\ NestedIdle /\ HavIdle /\ CmIdle

CallCalculateMapBounds ==
    /\ ~cb_ret.called
    /\ cb_ret' = [called |-> TRUE,
                  center |-> calculate_map_bounds(cb_coords).center,
                  zoom |-> calculate_map_bounds(cb_coords).zoom]
    /\ UNCHANGED cb_coords
    /\ UNCHANGED <<mainVars, mapperVars, nestedVars, havVars, cmVars>>

NextBounds == CallCalculateMapBounds

SpecBounds == InitBounds /\ [][NextBounds]_vars

\* the larger of the latitude spread and the longitude spread
SpreadOf(coords) ==
    LET lats == {coords[i][1] : i \in 1..Len(coords)}
        lngs == {coords[i][2] : i \in 1..Len(coords)}
        dlat == Max(lats) - Min(lats)
        dlng == Max(lngs) - Min(lngs)
    IN  IF dlat >= dlng THEN dlat ELSE dlng

\* the zoom table, in hundredths of a degree
ZoomTable(span) ==
    CASE span > 1000 -> 5
      [] span > 100 /\ span <= 1000 -> 9
      [] span > 10 /\ span <= 100 -> 12
      [] span > 1 /\ span <= 10 -> 14
      [] OTHER -> 16

\* C3: for a non-empty coordinate list the zoom depends only on the larger
\* spread: 5 above 10 degrees, 9 above 1, 12 above 0.1, 14 above 0.01, else
\* 16; a spread equal to a threshold takes the next row, and a single
\* coordinate gets 16.
C3_ZoomTable ==
    (cb_ret.called /\ cb_coords # <<>>) =>
        /\ cb_ret.zoom = ZoomTable(SpreadOf(cb_coords))
        /\ Len(cb_coords) = 1 => cb_ret.zoom = 16

\* C3 witness: a spread of exactly 10 degrees is given zoom 9
C3_Witness ==
    /\ cb_ret.called
    /\ cb_coords # <<>>
    /\ SpreadOf(cb_coords) = 1000
    /\ cb_ret.zoom = 9

\* C9: for the empty list the center is [0, 0] and the zoom 2; otherwise
\* the center is the mean of all latitudes and the mean of all longitudes,
\* duplicates counted, so the center of one coordinate is that coordinate.
C9_CenterIsMean ==
    cb_ret.called =>
        LET n == Len(cb_coords)
            c == cb_ret.center
        IN  /\ n = 0 => (c[1] = 0 /\ c[2] = 0 /\ c[3] = 1 /\ cb_ret.zoom = 2)
            /\ n > 0 =>
                 /\ c[3] > 0
                 /\ c[1] * n = c[3] * Sum([i \in 1..n |-> cb_coords[i][1]])
                 /\ c[2] * n = c[3] * Sum([i \in 1..n |-> cb_coords[i][2]])
            /\ n = 1 => (c[1] = c[3] * cb_coords[1][1] /\ c[2] = c[3] * cb_coords[1][2])

\* C9 witness: three coordinates, two of them equal, whose mean latitude is
\* not the middle of the bounding box
C9_Witness ==
    /\ cb_ret.called
    /\ Len(cb_coords) = 3
    /\ cb_coords[1] = cb_coords[2]
    /\ cb_coords[3][1] # cb_coords[1][1]
    /\ cb_ret.center[1] = 2 * cb_coords[1][1] + cb_coords[3][1]

---------------------------------------------------------------------------
(* haversine_distance called on its own, on points of the whole globe.     *)

Latitudes  == {-9000, -4500, 0, 1, 3000, 9000}
Longitudes == {-18000, -2, 0, 6000, 18000}

InitHaversine ==
    /\ hv_args \in Latitudes \X Longitudes \X Latitudes \X Longitudes
    /\ hv_ret = [called |-> FALSE, dist |-> 0]
    /\ MainIdle /\ MapperInit /\ NestedIdle /\ BoundsIdle /\ CmIdle

CallHaversine ==
    /\ ~hv_ret.called
    /\ hv_ret' = [called |-> TRUE,
                  dist |-> haversine_distance(hv_args[1], hv_args[2], hv_args[3], hv_args[4])]
    /\ UNCHANGED hv_args
    /\ UNCHANGED <<mainVars, mapperVars, nestedVars, boundsVars, cmVars>>

NextHaversine == CallHaversine

SpecHaversine == InitHaversine /\ [][NextHaversine]_vars

\* C4: the distance is the same with the two points swapped, is 0 between
\* a point and itself, and is never negative; on a sphere of radius 6371 km
\* two opposite points of the equator are 20015 km apart.
C4_HaversineSymmetric ==
    hv_ret.called =>
        /\ hv_ret.dist = haversine_distance(hv_args[3], hv_args[4], hv_args[1], hv_args[2])
        /\ (hv_args[1] = hv_args[3] /\ hv_args[2] = hv_args[4]) => hv_ret.dist = 0
        /\ hv_ret.dist >= 0
        /\ hv_args = <<0, 0, 0, 18000>> => hv_ret.dist \div 10 = 20015

\* C4 witness: two points of different latitude and longitude, a positive
\* distance apart
C4_Witness ==
    /\ hv_ret.called
    /\ hv_args[1] # hv_args[3]
    /\ hv_args[2] # hv_args[4]
    /\ hv_ret.dist > 0

---------------------------------------------------------------------------
(* create_map called on its own, on a fresh mapper: n <= MaxStays stays    *)
(* whose coordinates repeat a pattern of at most MaxCycle points, each     *)
(* stay carrying its own stayNumber, or none.                              *)

PatternPoints == {<<0, 0>>, <<4886, 235>>, <<-3390, 1820>>}

StayOf(pattern, tagged, i) ==
    LET c == pattern[((i - 1) % Len(pattern)) + 1]
    IN  IF tagged
        THEN JObj(<<PopupKeys[1].key, KeyLat, KeyLng>>, <<JNum(100 + i), JNum(c[1]), JNum(c[2])>>)
        ELSE JObj(<<KeyLat, KeyLng>>, <<JNum(c[1]), JNum(c[2])>>)

InitCreateMap ==
    /\ \E n \in 0..MaxStays, tagged \in BOOLEAN,
          pattern \in SeqsUpTo(PatternPoints, MaxCycle) \ {<<>>} :
           cm_stays = [i \in 1..n |-> StayOf(pattern, tagged, i)]
    /\ cm_path \in {"map.html"}
    /\ cm_ret = NoReturn
    /\ MainIdle /\ MapperInit /\ NestedIdle /\ BoundsIdle /\ HavIdle

CallCreateMap ==
    /\ ~cm_ret.called
    /\ LET r == create_map(mapper_map, files, cm_stays, cm_path)
       IN  /\ cm_ret' = [called |-> TRUE, raised |-> r.raised, ret |-> r.ret]
           /\ mapper_map' = r.map
           /\ files' = r.files
    /\ UNCHANGED <<cm_stays, cm_path, opened>>
    /\ UNCHANGED <<mainVars, nestedVars, boundsVars, havVars>>

NextCreateMap == CallCreateMap

SpecCreateMap == InitCreateMap /\ [][NextCreateMap]_vars

---------------------------------------------------------------------------
(* main: the input file and the command line.                              *)

KeyLocation == <<"l","o","c","a","t","i","o","n">>
KeyR == <<"r">>

\* the elements the array is made of
Items == {
    JObj(<<KeyLocation>>, <<JArr(<<JNum(4886), JNum(235)>>)>>),
    JObj(<<PopupKeys[1].key, KeyLocation>>, <<JNum(2), JArr(<<JNum(5151), JNum(-13)>>)>>),
    JObj(<<KeyLat, KeyLng, KeyLocation>>,
         <<JNum(10), JNum(20), JArr(<<JNum(30), JNum(40)>>)>>),
    JObj(<<KeyLocation>>, <<JArr(<<JNum(7)>>)>>),
    JObj(<<KeyLocation>>, <<JStr(<<"x", "y">>)>>),
    JNum(3) }

ItemLists == {JArr(q) : q \in SeqsUpTo(Items, MaxItems)}

Files ==
    {[readable |-> FALSE, json |-> JNull]}
    \cup {[readable |-> TRUE, json |-> d] : d \in ItemLists}
    \cup {[readable |-> TRUE, json |-> JObj(<<KeyR>>, <<d>>)] : d \in ItemLists}

ArrayPaths == {<<>>, KeyR, <<"q">>, <<"r", "[">>}
LatKeys == {KeyLocation \o <<"[", "0", "]">>, KeyLat, <<>>}
LngKeys == {KeyLocation \o <<"[", "1", "]">>, KeyLng, KeyLat, <<>>}

Init ==
    /\ file \in Files
    /\ args \in [array_path : ArrayPaths, lat_key : LatKeys, lng_key : LngKeys,
                 output : {"map.html"}]
    /\ pc = "load"
    /\ data = JNull
    /\ raw = JNull
    /\ stays = <<>>
    /\ idx = 0
    /\ html = ""
    /\ exit_status = -1
    /\ calls = <<>>
    /\ MapperInit /\ NestedIdle /\ BoundsIdle /\ HavIdle /\ CmIdle

others == <<nestedVars, boundsVars, havVars, cmVars>>

\* try: json.load(f)  except: sys.exit(1)
LoadJson ==
    /\ pc = "load"
    /\ calls' = Append(calls, "load")
    /\ IF file.readable
       THEN /\ data' = file.json
            /\ pc' = "resolve"
            /\ UNCHANGED exit_status
       ELSE /\ pc' = "exit_load"
            /\ exit_status' = 1
            /\ UNCHANGED data
    /\ UNCHANGED <<file, args, raw, stays, idx, html, mapperVars, others>>

\* raw = data; if args.array_path: raw = get_nested(data, args.array_path)
ResolveArrayPath ==
    /\ pc = "resolve"
    /\ IF args.array_path = <<>>
       THEN /\ raw' = data
            /\ pc' = "check"
            /\ UNCHANGED <<exit_status, calls>>
       ELSE /\ calls' = Append(calls, "resolve")
            /\ LET r == get_nested(data, args.array_path)
               IN  IF r.ok
                   THEN /\ raw' = r.val
                        /\ pc' = "check"
                        /\ UNCHANGED exit_status
                   ELSE /\ pc' = "exit_path"
                        /\ exit_status' = 1
                        /\ UNCHANGED raw
    /\ UNCHANGED <<file, args, data, stays, idx, html, mapperVars, others>>

\* if not isinstance(raw, list): sys.exit(1)
CheckIsList ==
    /\ pc = "check"
    /\ calls' = Append(calls, "check")
    /\ IF raw.t = "arr"
       THEN /\ pc' = "extract"
            /\ idx' = 1
            /\ UNCHANGED exit_status
       ELSE /\ pc' = "exit_notlist"
            /\ exit_status' = 1
            /\ UNCHANGED idx
    /\ UNCHANGED <<file, args, data, raw, stays, html, mapperVars, others>>

\* the mutant: an element whose coordinates cannot be extracted is skipped
ExtractStaySkipping ==
    /\ pc = "extract"
    /\ idx <= Len(raw.kids)
    /\ calls' = Append(calls, "extract")
    /\ LET r == ExtractItem(raw.kids[idx], args.lat_key, args.lng_key)
       IN  IF r.status = "ok"
           THEN /\ raw' = [raw EXCEPT !.kids[idx] = r.item]
                /\ data' = StoreAt(data, SplitDots(args.array_path), 1, raw')
                /\ stays' = Append(stays, r.item)
                /\ idx' = idx + 1
                /\ UNCHANGED <<pc, exit_status>>
           ELSE /\ idx' = idx + 1
                /\ UNCHANGED <<pc, exit_status, raw, data, stays>>
    /\ UNCHANGED <<file, args, html, mapperVars, others>>

\* one iteration of: for i, item in enumerate(raw, start=1)
ExtractStay ==
    /\ pc = "extract"
    /\ idx <= Len(raw.kids)
    /\ calls' = Append(calls, "extract")
    /\ LET r == ExtractItem(raw.kids[idx], args.lat_key, args.lng_key)
       IN  IF r.status = "ok"
           THEN /\ raw' = [raw EXCEPT !.kids[idx] = r.item]
                /\ data' = StoreAt(data, SplitDots(args.array_path), 1, raw')
                /\ stays' = Append(stays, r.item)
                /\ idx' = idx + 1
                /\ UNCHANGED <<pc, exit_status>>
           ELSE /\ pc' = IF r.status = "failed" THEN "exit_coords" ELSE "crash"
                /\ exit_status' = 1
                /\ UNCHANGED <<raw, data, stays, idx>>
    /\ UNCHANGED <<file, args, html, mapperVars, others>>

\* after the loop: mapper = SimpleLocationMapper();
\* html = mapper.create_map(stays, save_path=args.output)
CreateMap ==
    /\ pc = "extract"
    /\ idx > Len(raw.kids)
    /\ calls' = Append(calls, "create_map")
    /\ LET r == create_map(NoMap, files, stays, args.output)
       IN  /\ mapper_map' = r.map
           /\ files' = r.files
           /\ html' = r.ret
           /\ IF r.raised
              THEN pc' = "crash" /\ exit_status' = 1
              ELSE IF r.ret # ""
                   THEN pc' = "open" /\ UNCHANGED exit_status
                   ELSE pc' = "done" /\ exit_status' = 0
    /\ UNCHANGED <<file, args, data, raw, stays, idx, opened, others>>

\* if html: mapper.open_map(html)
OpenMap ==
    /\ pc = "open"
    /\ calls' = Append(calls, "open_map")
    /\ opened' = Append(opened, html)
    /\ pc' = "done"
    /\ exit_status' = 0
    /\ UNCHANGED <<file, args, data, raw, stays, idx, html, mapper_map, files, others>>

Next ==
    \/ LoadJson
    \/ ResolveArrayPath
    \/ CheckIsList
    \/ ExtractStay
    \/ CreateMap
    \/ OpenMap

Spec == Init /\ [][Next]_vars

---------------------------------------------------------------------------
(* Claims about main.                                                      *)

Called(stage) == \E k \in 1..Len(calls) : calls[k] = stage

Rank(stage) ==
    CASE stage = "load" -> 1
      [] stage = "resolve" -> 2
      [] stage = "check" -> 3
      [] stage = "extract" -> 4
      [] stage = "create_map" -> 5
      [] stage = "open_map" -> 6

Ended == pc \in {"done", "exit_load", "exit_path", "exit_notlist", "exit_coords", "crash"}

\* the array of the input file that the array path names, as it is on disk
ArrayOnDisk ==
    IF args.array_path = <<>> THEN Ok(file.json) ELSE get_nested(file.json, args.array_path)

LoadingFails == ~file.readable
PathFails    == file.readable /\ ~ArrayOnDisk.ok
NotAList     == file.readable /\ ArrayOnDisk.ok /\ ArrayOnDisk.val.t # "arr"
CoordsFail   ==
    /\ file.readable /\ ArrayOnDisk.ok /\ ArrayOnDisk.val.t = "arr"
    /\ \E k \in 1..Len(ArrayOnDisk.val.kids) :
           \/ ~get_nested(ArrayOnDisk.val.kids[k], args.lat_key).ok
           \/ ~get_nested(ArrayOnDisk.val.kids[k], args.lng_key).ok

\* C5: the stages run in the order load, resolve, check, extract (once per
\* element), create_map, open_map, none skipped; and when loading fails,
\* the array path does not resolve, the value is not a list or the
\* coordinates of some element cannot be extracted, create_map and open_map
\* are never called, no file is written, and the run ends with status 1.
C5_StagesAndFailures ==
    /\ \A j, k \in 1..Len(calls) :
           j < k => /\ Rank(calls[j]) <= Rank(calls[k])
                    /\ Rank(calls[j]) = Rank(calls[k]) => calls[j] = "extract"
    /\ Called("create_map") =>
           /\ Called("load") /\ Called("check")
           /\ Called("resolve") <=> args.array_path # <<>>
           /\ Cardinality({k \in 1..Len(calls) : calls[k] = "extract"}) = Len(raw.kids)
    /\ Called("open_map") => Called("create_map")
    /\ (LoadingFails \/ PathFails \/ NotAList \/ CoordsFail) =>
           /\ ~Called("create_map") /\ ~Called("open_map")
           /\ files = {} /\ opened = <<>>
           /\ Ended => exit_status = 1
           /\ pc # "done"

\* C5 witness: the first element was extracted, the second was not, and
\* the run ended
C5_Witness ==
    /\ pc = "exit_coords"
    /\ Len(stays) = 1
    /\ exit_status = 1

\* C8: create_map called with no stays returns None, saves no file and
\* leaves self.map as it was, and main does not call open_map; and whenever
\* open_map has been called, create_map was called before it, self.map is
\* set, and that map is saved under the path that was opened.
C8_EmptyAndOpen ==
    /\ (Called("create_map") /\ stays = <<>>) =>
           /\ html = "" /\ files = {} /\ mapper_map = NoMap
           /\ ~Called("open_map") /\ opened = <<>> /\ pc = "done"
    /\ Called("open_map") =>
           /\ \E j, k \in 1..Len(calls) :
                  j < k /\ calls[j] = "create_map" /\ calls[k] = "open_map"
           /\ mapper_map.built
           /\ opened = <<args.output>>
           /\ [path |-> opened[1], map |-> mapper_map] \in files

\* C8 witness: main called create_map on an empty array and ended
C8_Witness ==
    /\ Called("create_map")
    /\ stays = <<>>
    /\ raw = JArr(<<>>)
    /\ pc = "done"

\* the element k of the array as it is on disk
OnDisk(k) == ArrayOnDisk.val.kids[k]

\* C10: lat and lng are both resolved against the element as it was before
\* either is written; then element["lat"] and element["lng"] hold them, the
\* other keys of the element are as they were, and the stays handed to
\* create_map are the elements of the array, in order.
C10_ExtractFrame ==
    /\ \A k \in 1..Len(stays) :
           LET old == OnDisk(k)
               new == stays[k]
           IN  /\ DictGet(new, KeyLat) = Stored(old, get_nested(old, args.lat_key).val)
               /\ DictGet(new, KeyLng) = Stored(old, get_nested(old, args.lng_key).val)
               /\ Range(new.keys) = Range(old.keys) \cup {KeyLat, KeyLng}
               /\ Len(new.keys) = Cardinality(Range(new.keys))
               /\ \A key \in Range(old.keys) \ {KeyLat, KeyLng} :
                      DictGet(new, key) = DictGet(old, key)
               /\ raw.kids[k] = new
    /\ Called("create_map") => Len(stays) = Len(ArrayOnDisk.val.kids)

\* C10 witness: the longitude path reads the key lat of an element that
\* had one, and the latitude written is another value
C10_Witness ==
    /\ Called("create_map")
    /\ Len(stays) >= 1
    /\ args.lng_key = KeyLat
    /\ HasKey(OnDisk(1), KeyLat)
    /\ DictGet(stays[1], KeyLat) # DictGet(OnDisk(1), KeyLat)
    /\ DictGet(stays[1], KeyLng) = DictGet(OnDisk(1), KeyLat)

---------------------------------------------------------------------------
(* Claims about create_map.                                                *)

OfKind(elems, kind) == SelectSeq(elems, LAMBDA e : e.kind = kind)

StayPos(k) == <<DictGet(cm_stays[k], KeyLat).n, DictGet(cm_stays[k], KeyLng).n>>

\* C6: n >= 2 stays get exactly n-1 lines, the k-th from stay k to stay
\* k+1 and labelled k->k+1, and n-1 distance labels, the k-th at the
\* midpoint of stays k and k+1; one stay gets neither.
C6_Route ==
    (cm_ret.called /\ Len(cm_stays) >= 1) =>
        LET n == Len(cm_stays)
            lines == OfKind(mapper_map.elems, "line")
            labels == OfKind(mapper_map.elems, "distance_label")
        IN  /\ Len(lines) = n - 1
            /\ Len(labels) = n - 1
            /\ \A k \in 1..(n - 1) :
                   /\ lines[k].at = <<StayPos(k)[1], StayPos(k)[2], 1>>
                   /\ lines[k].to = <<StayPos(k + 1)[1], StayPos(k + 1)[2], 1>>
                   /\ lines[k].index = k
                   /\ lines[k].next = k + 1
                   /\ labels[k].at[3] > 0
                   /\ 2 * labels[k].at[1] = labels[k].at[3] * (StayPos(k)[1] + StayPos(k + 1)[1])
                   /\ 2 * labels[k].at[2] = labels[k].at[3] * (StayPos(k)[2] + StayPos(k + 1)[2])

\* C6 witness: three stays at different places, with their two lines
C6_Witness ==
    /\ cm_ret.called
    /\ Len(cm_stays) = 3
    /\ StayPos(1) # StayPos(2)
    /\ Len(OfKind(mapper_map.elems, "line")) = 2

\* C7: stay i of n >= 1 gets exactly two markers at its place, the popup
\* marker "Location #i" made of the data of stay i and the badge showing i,
\* both of colour colors[(i-1) mod 17]; stays i and i+17 share a colour.
C7_Markers ==
    (cm_ret.called /\ Len(cm_stays) >= 1) =>
        LET n == Len(cm_stays)
            popups == OfKind(mapper_map.elems, "popup_marker")
            badges == OfKind(mapper_map.elems, "badge")
            tag == PopupKeys[1].key
        IN  /\ Len(popups) = n
            /\ Len(badges) = n
            /\ Len(colors) = 17
            /\ \A i \in 1..n :
                   LET at == <<StayPos(i)[1], StayPos(i)[2], 1>>
                       color == colors[((i - 1) % 17) + 1]
                   IN  /\ popups[i].at = at /\ badges[i].at = at
                       /\ popups[i].index = i /\ badges[i].index = i
                       /\ popups[i].color = color /\ badges[i].color = color
                       /\ popups[i].popup.index = i
                       /\ popups[i].popup.color = color
                       /\ popups[i].popup.lat = at[1] /\ popups[i].popup.lng = at[2]
                       /\ popups[i].popup.rows =
                              IF HasKey(cm_stays[i], tag)
                              THEN <<[label |-> "Stay #", value |-> DictGet(cm_stays[i], tag)]>>
                              ELSE <<>>
                       /\ i + 17 <= n => popups[i + 17].color = popups[i].color

\* C7 witness: eighteen stays with their own data, the last one red again
C7_Witness ==
    /\ cm_ret.called
    /\ Len(cm_stays) >= 18
    /\ HasKey(cm_stays[18], PopupKeys[1].key)
    /\ \E k \in 1..Len(mapper_map.elems) :
           /\ mapper_map.elems[k].kind = "popup_marker"
           /\ mapper_map.elems[k].index = 18
           /\ mapper_map.elems[k].color = "red"

=============================================================================
